---- MODULE Spec2Model ----
(***************************************************************************)
(* A model of the one_wire bus-master driver: the byte commands of         *)
(* src/command.rs, the ROM commands of src/commands/rom.rs and the memory  *)
(* commands of src/commands/memory.rs, run against a simulated wired-AND   *)
(* bus.                                                                    *)
(*                                                                         *)
(* A u64 is modelled as the set of its set bit positions (a subset of      *)
(* 0..63): the code only ever applies |, &, ^ and ! with one-bit masks to  *)
(* it, so x | mask is x \cup {i}, x & !mask is x \ {i} and x ^ mask is the *)
(* symmetric difference.  A byte is a number in 0..255, a bit is 0 or 1.   *)
(***************************************************************************)
EXTENDS Integers, Sequences, FiniteSets, TLC

VARIABLES
    devices,        \* bus: the identifiers (8-byte tuples) of the attached devices
    participating,  \* bus: the devices still answering in the current transaction
    device_scratchpad, \* bus: the 9-byte block a device sends on a scratchpad read
    loopback,       \* loopback transport double: the written bits not yet read back
    cmd,            \* the command being executed ("idle" before the first one)
    self,           \* the command value: its rom and scratchpad fields
    pc,             \* position inside the command's execute
    index,          \* the loop counter of the running loop
    code,           \* the u64 accumulator of a search pass (`rom` / `code`)
    bytes,          \* the byte buffer filled by read_bytes
    conflicts,      \* RomSearch.conflicts
    result,         \* the value the command returned
    log,            \* the bus operations the running command has issued, in order
    passes          \* outcome of each RomSearch::search pass of the running enumeration

vars == <<devices, participating, device_scratchpad, loopback, cmd, self, pc, index, code, bytes,
          conflicts, result, log, passes>>

----------------------------------------------------------------------------
(* Bounds of the model *)

\* the largest number of devices put on the simulated bus
MaxDevices == 5

----------------------------------------------------------------------------
(* Program constants *)

COMMAND_ROM_READ == 51
COMMAND_ROM_MATCH == 85
COMMAND_ROM_SKIP == 204
COMMAND_ROM_SEARCH == 240
COMMAND_MEMORY_CONVERT == 68
COMMAND_MEMORY_RECALL == 184
COMMAND_MEMORY_SCRATCHPAD_COPY == 72
COMMAND_MEMORY_SCRATCHPAD_READ == 190
COMMAND_MEMORY_SCRATCHPAD_WRITE == 78
READ_SLOT_DURATION_MICROS == 70
U8_BITS == 8
U64_BITS == 64

CONFLICT == <<0, 0>>
ZERO == <<0, 1>>
ONE == <<1, 0>>
NONE == <<1, 1>>

----------------------------------------------------------------------------
(* Bits and bytes *)

Bit(n, i) == (n \div (2 ^ i)) % 2

\* a ^ b on bytes, as a table
Xor8Table ==
    [a \in 0..255 |-> [b \in 0..255 |->
        LET x(i) == ((Bit(a, i) + Bit(b, i)) % 2) * (2 ^ i)
        IN  x(0) + x(1) + x(2) + x(3) + x(4) + x(5) + x(6) + x(7)]]

Xor8(a, b) == Xor8Table[a][b]

\* byte k (0..7) of a u64: bits 8k .. 8k+7
ByteAt(v, k) ==
    LET x(j) == IF (8 * k + j) \in v THEN 2 ^ j ELSE 0
    IN  x(0) + x(1) + x(2) + x(3) + x(4) + x(5) + x(6) + x(7)

\* u64::to_le_bytes
to_le_bytes(v) ==
    <<ByteAt(v, 0), ByteAt(v, 1), ByteAt(v, 2), ByteAt(v, 3),
      ByteAt(v, 4), ByteAt(v, 5), ByteAt(v, 6), ByteAt(v, 7)>>

\* x ^ mask on the set representation
BitXor(x, mask) == (x \ mask) \cup (mask \ x)

\* one shift of the CRC register (reflected polynomial 0x8C)
Crc8Step == [c \in 0..255 |-> IF c % 2 = 1 THEN Xor8(c \div 2, 140) ELSE c \div 2]

RECURSIVE Crc8Shift(_, _)
Crc8Shift(crc, n) == IF n = 0 THEN crc ELSE Crc8Shift(Crc8Step[crc], n - 1)

\* the CRC register after one more byte x has been xor-ed in and shifted out
Crc8Table == [x \in 0..255 |-> Crc8Shift(x, 8)]

RECURSIVE Crc8Fold(_, _)
Crc8Fold(crc, bs) ==
    IF bs = <<>> THEN crc
    ELSE Crc8Fold(Crc8Table[Xor8(crc, Head(bs))], Tail(bs))

\* Dallas/Maxim CRC-8 of a byte sequence (reflected polynomial 0x8C, initial value 0)
crc8(bs) == Crc8Fold(0, bs)

----------------------------------------------------------------------------
(* Results *)

NoRom == [family_code |-> -1, serial_number |-> <<>>, crc |-> -1]
NoPad == [high |-> -1, low |-> -1, resolution |-> -1]

Running == [tag |-> "Running", err |-> "", crc8 |-> 0, rom |-> NoRom, pad |-> NoPad, byte |-> -1]
Ok == [Running EXCEPT !.tag = "Ok"]
OkRom(r) == [Ok EXCEPT !.rom = r]
OkPad(p) == [Ok EXCEPT !.pad = p]
OkByte(b) == [Ok EXCEPT !.byte = b]
Err(e) == [Running EXCEPT !.tag = "Err", !.err = e]
MismatchedCrc(c) == [Err("MismatchedCrc") EXCEPT !.crc8 = c]

\* crc8::check
check(bs) == LET c == crc8(bs) IN IF c = 0 THEN Ok ELSE MismatchedCrc(c)

\* Rom: family code, 6 serial bytes, CRC
RomOfBytes(bs) ==
    [family_code |-> bs[1], serial_number |-> SubSeq(bs, 2, 7), crc |-> bs[8]]

\* Into<[u8; 8]> for Rom
RomIntoBytes(r) == <<r.family_code>> \o r.serial_number \o <<r.crc>>

\* TryFrom<[u8; 8]> for Rom
RomTryFromBytes(bs) ==
    LET c == check(bs) IN IF c.tag = "Ok" THEN OkRom(RomOfBytes(bs)) ELSE c

\* TryFrom<u64> for Rom
RomTryFromU64(v) == RomTryFromBytes(to_le_bytes(v))

----------------------------------------------------------------------------
(* The simulated bus *)

\* the identifier of device s: family code 0x28, serial number s, its CRC
DeviceId(s) ==
    LET pre == <<40, s, 0, 0, 0, 0, 0>> IN pre \o <<crc8(pre)>>

\* a device whose identifier does not satisfy the CRC invariant
CorruptId ==
    LET pre == <<40, 9, 0, 0, 0, 0, 0>> IN pre \o <<Xor8(crc8(pre), 1)>>

Buses ==
    {{DeviceId(s) : s \in S} : S \in SUBSET (1..MaxDevices)} \cup {{CorruptId}}

\* bit i (0..63) of an identifier, in transmission order
IdBit(d, i) == Bit(d[(i \div 8) + 1], i % 8)

\* the identifier as a u64
IdBits(d) == {i \in 0..(U64_BITS - 1) : IdBit(d, i) = 1}

\* wired-AND: the line is low when any answering device pulls it low
WiredAnd(bits) == IF 0 \in bits THEN 0 ELSE 1

\* a read slot in which every participating device sends bit i of its identifier
ReadIdBit(part, i) == WiredAnd({IdBit(d, i) : d \in part})

\* the two read slots of one search position: the bit, then its complement
ReadPair(part, i) ==
    <<WiredAnd({IdBit(d, i) : d \in part}), WiredAnd({1 - IdBit(d, i) : d \in part})>>

\* a written search bit drops every device whose bit i differs
Select(part, i, b) == {d \in part : IdBit(d, i) = b}

\* reset: presence is reported when at least one device is attached
Presence(devs) == IF devs = {} THEN 0 ELSE 1

----------------------------------------------------------------------------
(* src/command.rs *)

RECURSIVE WriteByteLoop(_, _)
WriteByteLoop(byte, n) ==
    IF n = 0 THEN <<>>
    ELSE <<IF byte % 2 = 1 THEN 1 ELSE 0>> \o WriteByteLoop(byte \div 2, n - 1)

\* a WriteByte that sends the most significant bit first
WriteByte_MsbFirst(byte) == [k \in 1..8 |-> Bit(byte, 8 - k)]

\* WriteByte::execute: the bits handed to write_bit, in order
WriteByte(byte) == WriteByteLoop(byte, U8_BITS)

\* a ReadByte that assembles the byte most significant bit first
ReadByteStep_MsbFirst(byte, bit) == ((byte * 2) % 256) + bit

\* byte >>= 1; if read_bit()? { byte |= 0x80 }  (bit 7 is clear after the shift)
ReadByteStep(byte, bit) == (byte \div 2) + (IF bit = 1 THEN 128 ELSE 0)

RECURSIVE ReadByteLoop(_, _)
ReadByteLoop(byte, bits) ==
    IF bits = <<>> THEN byte
    ELSE ReadByteLoop(ReadByteStep(byte, Head(bits)), Tail(bits))

\* ReadByte::execute: the byte assembled from the 8 bits read_bit returned, in order
ReadByte(bits) == ReadByteLoop(0, bits)

\* log entries
LogReset(p) == <<"reset", p>>
LogWrites(bits) == [k \in 1..Len(bits) |-> <<"write", bits[k]>>]
LogReads(bits) == [k \in 1..Len(bits) |-> <<"read", bits[k]>>]
LogByte(byte) == LogWrites(WriteByte(byte))

RECURSIVE LogBytes(_)
\* WriteBytes::execute
LogBytes(bs) == IF bs = <<>> THEN <<>> ELSE LogByte(Head(bs)) \o LogBytes(Tail(bs))

----------------------------------------------------------------------------
(* State shared by every command *)

NoSelf == [rom |-> {}, scratchpad |-> NoPad, byte |-> -1]

Idle == pc \in {"idle", "done"}

InitCommon ==
    /\ participating = {}
    /\ device_scratchpad = <<>>
    /\ loopback = <<>>
    /\ cmd = "idle"
    /\ self = NoSelf
    /\ pc = "idle"
    /\ index = 0
    /\ code = {}
    /\ bytes = <<>>
    /\ conflicts = {}
    /\ result = Running
    /\ log = <<>>
    /\ passes = <<>>

\* every attached device leaves the bus in the middle of a transaction
Detach ==
    /\ ~Idle
    /\ devices # {}
    /\ devices' = {}
    /\ participating' = {}
    /\ UNCHANGED <<device_scratchpad, loopback, cmd, self, pc, index, code, bytes, conflicts, result,
                   log, passes>>

----------------------------------------------------------------------------
(* src/commands/rom.rs: RomRead *)

\* the bits of the next 8 read slots while the devices send their identifier
ReadIdByte(part, k) ==
    LET b(j) == ReadIdBit(part, U8_BITS * k + j)
    IN  <<b(0), b(1), b(2), b(3), b(4), b(5), b(6), b(7)>>

RomRead_return(rom_bytes) == RomTryFromBytes(rom_bytes)

\* reset, presence check, write_byte(COMMAND_ROM_READ)
RomRead_execute ==
    /\ Idle
    /\ cmd' = "RomRead"
    /\ self' = NoSelf
    /\ participating' = devices
    /\ index' = 0
    /\ code' = {}
    /\ bytes' = [k \in 1..8 |-> 0]
    /\ IF Presence(devices) = 0
       THEN /\ log' = <<LogReset(0)>>
            /\ result' = Err("NoAttachedDevices")
            /\ pc' = "done"
       ELSE /\ log' = <<LogReset(1)>> \o LogByte(COMMAND_ROM_READ)
            /\ result' = Running
            /\ pc' = "read_bytes"
    /\ UNCHANGED <<devices, device_scratchpad, loopback, conflicts, passes>>

\* one iteration of read_bytes: a ReadByte into rom_bytes[index]
RomRead_read_byte ==
    /\ cmd = "RomRead"
    /\ pc = "read_bytes"
    /\ LET bits == ReadIdByte(participating, index)
       IN  /\ bytes' = [bytes EXCEPT ![index + 1] = ReadByte(bits)]
           /\ log' = log \o LogReads(bits)
    /\ index' = index + 1
    /\ pc' = IF index + 1 = 8 THEN "return" ELSE "read_bytes"
    /\ UNCHANGED <<devices, participating, device_scratchpad, loopback, cmd, self, code, conflicts,
                   result, passes>>

\* rom_bytes.try_into()
RomRead_finish ==
    /\ cmd = "RomRead"
    /\ pc = "return"
    /\ result' = RomRead_return(bytes)
    /\ pc' = "done"
    /\ UNCHANGED <<devices, participating, device_scratchpad, loopback, cmd, self, index, code, bytes,
                   conflicts, log, passes>>

----------------------------------------------------------------------------
(* src/commands/rom.rs: RomSearch *)

\* a stateless search that takes branch 1 at a conflict
ExecuteStep_ConflictOne(rom, i, pair) ==
    CASE pair = CONFLICT -> [code |-> rom \cup {i}, write |-> 1]
      [] pair = ZERO     -> [code |-> rom \ {i}, write |-> 0]
      [] pair = ONE      -> [code |-> rom \cup {i}, write |-> 1]
      [] pair = NONE     -> [code |-> rom, write |-> -1]

\* the match of RomSearch::execute at one bit position: write = -1 is the early return
ExecuteStep(rom, i, pair) ==
    CASE pair = CONFLICT -> [code |-> rom \ {i}, write |-> 0]
      [] pair = ZERO     -> [code |-> rom \ {i}, write |-> 0]
      [] pair = ONE      -> [code |-> rom \cup {i}, write |-> 1]
      [] pair = NONE     -> [code |-> rom, write |-> -1]

\* a search that takes (1,1) for "every device has a 1 here" and goes on
SearchStep_NoneGoesOn(conf, c, i, pair) ==
    CASE pair = CONFLICT ->
            LET mask == {i}
                toggled == BitXor(conf, mask)
            IN  IF BitXor(toggled, mask) = {}
                THEN [conflicts |-> toggled \cup mask, code |-> c \ mask, write |-> 0]
                ELSE [conflicts |-> toggled \ mask, code |-> c \cup mask, write |-> 1]
      [] pair = ZERO     -> [conflicts |-> conf, code |-> c \cup {i}, write |-> 0]
      [] pair \in {ONE, NONE} -> [conflicts |-> conf, code |-> c \ {i}, write |-> 1]

\* a search that answers every conflict the way the stateless search does:
\* branch 0, the position recorded
SearchStep_AlwaysZero(conf, c, i, pair) ==
    CASE pair = CONFLICT -> [conflicts |-> conf \cup {i}, code |-> c \ {i}, write |-> 0]
      [] pair = ZERO     -> [conflicts |-> conf, code |-> c \cup {i}, write |-> 0]
      [] pair = ONE      -> [conflicts |-> conf, code |-> c \ {i}, write |-> 1]
      [] pair = NONE     -> [conflicts |-> conf, code |-> c, write |-> -1]

\* the match of RomSearch::search at one bit position
SearchStep(conf, c, i, pair) ==
    CASE pair = CONFLICT ->
            LET mask == {i}
                toggled == BitXor(conf, mask)
            IN  IF BitXor(toggled, mask) = {}
                THEN [conflicts |-> toggled \cup mask, code |-> c \ mask, write |-> 0]
                ELSE [conflicts |-> toggled \ mask, code |-> c \cup mask, write |-> 1]
      [] pair = ZERO     -> [conflicts |-> conf, code |-> c \cup {i}, write |-> 0]
      [] pair = ONE      -> [conflicts |-> conf, code |-> c \ {i}, write |-> 1]
      [] pair = NONE     -> [conflicts |-> conf, code |-> c, write |-> -1]

\* a return that builds the identifier without validating it
RomSearch_execute_return_Unchecked(rom) == OkRom(RomOfBytes(to_le_bytes(rom)))

\* check(&rom.to_le_bytes())?; rom.try_into()
RomSearch_execute_return(rom) ==
    LET c == check(to_le_bytes(rom))
    IN  IF c.tag = "Err" THEN c ELSE RomTryFromU64(rom)

\* code.try_into()
RomSearch_search_return(c) == RomTryFromU64(c)

\* a search that does not look at what reset returned
SearchBegin_PresenceIgnored(name) ==
    /\ Idle
    /\ cmd' = name
    /\ self' = NoSelf
    /\ participating' = devices
    /\ index' = 0
    /\ code' = {}
    /\ bytes' = <<>>
    /\ log' = <<LogReset(Presence(devices))>> \o LogByte(COMMAND_ROM_SEARCH)
    /\ result' = Running
    /\ pc' = "bits"
    /\ UNCHANGED <<devices, device_scratchpad, loopback, conflicts>>

\* reset, presence check, write_byte(COMMAND_ROM_SEARCH), the accumulator cleared
SearchBegin(name) ==
    /\ Idle
    /\ cmd' = name
    /\ self' = NoSelf
    /\ participating' = devices
    /\ index' = 0
    /\ code' = {}
    /\ bytes' = <<>>
    /\ IF Presence(devices) = 0
       THEN /\ log' = <<LogReset(0)>>
            /\ result' = Err("NoAttachedDevices")
            /\ pc' = "done"
       ELSE /\ log' = <<LogReset(1)>> \o LogByte(COMMAND_ROM_SEARCH)
            /\ result' = Running
            /\ pc' = "bits"
    /\ UNCHANGED <<devices, device_scratchpad, loopback, conflicts>>

RomSearch_execute ==
    /\ SearchBegin("RomSearch_execute")
    /\ UNCHANGED passes

\* one iteration of the loop of RomSearch::execute
RomSearch_execute_bit ==
    /\ cmd = "RomSearch_execute"
    /\ pc = "bits"
    /\ LET pair == ReadPair(participating, index)
           s == ExecuteStep(code, index, pair)
       IN  /\ code' = s.code
           /\ IF s.write = -1
              THEN /\ log' = log \o LogReads(pair)
                   /\ result' = Err("NoAttachedDevices")
                   /\ pc' = "done"
                   /\ UNCHANGED <<participating, index>>
              ELSE /\ log' = log \o LogReads(pair) \o LogWrites(<<s.write>>)
                   /\ participating' = Select(participating, index, s.write)
                   /\ index' = index + 1
                   /\ pc' = IF index + 1 = U64_BITS THEN "return" ELSE "bits"
                   /\ UNCHANGED result
    /\ UNCHANGED <<devices, device_scratchpad, loopback, cmd, self, bytes, conflicts, passes>>

RomSearch_execute_finish ==
    /\ cmd = "RomSearch_execute"
    /\ pc = "return"
    /\ result' = RomSearch_execute_return(code)
    /\ pc' = "done"
    /\ UNCHANGED <<devices, participating, device_scratchpad, loopback, cmd, self, index, code, bytes,
                   conflicts, log, passes>>

\* the positions of the running pass that read (0,0) and were answered with bit b:
\* position i owns log entries 10+3i and 11+3i (the reads) and 12+3i (the write)
Branches(b) ==
    {i \in 0..(U64_BITS - 1) :
        /\ Len(log) >= 12 + 3 * i
        /\ <<log[10 + 3 * i][2], log[11 + 3 * i][2]>> = CONFLICT
        /\ log[12 + 3 * i][2] = b}

\* what an enumeration remembers of a finished pass: what it returned, the
\* devices still answering at its end, the branch taken at each conflict and
\* the conflict mask it left
PassRecord(res, part) ==
    [result |-> res, ended |-> part, zeros |-> Branches(0), ones |-> Branches(1),
     mask |-> conflicts]

\* a pass that starts from conflict mask 0 starts an enumeration; a pass that
\* finds no presence is not recorded
RomSearch_search ==
    /\ SearchBegin("RomSearch_search")
    /\ passes' = IF Presence(devices) = 1 /\ conflicts = {} THEN <<>> ELSE passes

\* a loop that reads the value slot only and takes the complement for granted
RomSearch_search_bit_OneRead ==
    /\ cmd = "RomSearch_search"
    /\ pc = "bits"
    /\ LET bit == ReadIdBit(participating, index)
           s == SearchStep(conflicts, code, index, <<bit, 1 - bit>>)
       IN  /\ code' = s.code
           /\ conflicts' = s.conflicts
           /\ log' = log \o LogReads(<<bit>>) \o LogWrites(<<s.write>>)
           /\ participating' = Select(participating, index, s.write)
           /\ index' = index + 1
           /\ pc' = IF index + 1 = U64_BITS THEN "return" ELSE "bits"
           /\ UNCHANGED <<result, passes>>
    /\ UNCHANGED <<devices, device_scratchpad, loopback, cmd, self, bytes>>

\* one iteration of the loop of RomSearch::search
RomSearch_search_bit ==
    /\ cmd = "RomSearch_search"
    /\ pc = "bits"
    /\ LET pair == ReadPair(participating, index)
           s == SearchStep(conflicts, code, index, pair)
       IN  /\ code' = s.code
           /\ conflicts' = s.conflicts
           /\ IF s.write = -1
              THEN /\ log' = log \o LogReads(pair)
                   /\ result' = Err("NoAttachedDevices")
                   /\ pc' = "done"
                   /\ passes' = Append(passes, PassRecord(Err("NoAttachedDevices"), participating))
                   /\ UNCHANGED <<participating, index>>
              ELSE /\ log' = log \o LogReads(pair) \o LogWrites(<<s.write>>)
                   /\ participating' = Select(participating, index, s.write)
                   /\ index' = index + 1
                   /\ pc' = IF index + 1 = U64_BITS THEN "return" ELSE "bits"
                   /\ UNCHANGED <<result, passes>>
    /\ UNCHANGED <<devices, device_scratchpad, loopback, cmd, self, bytes>>

RomSearch_search_finish ==
    /\ cmd = "RomSearch_search"
    /\ pc = "return"
    /\ result' = RomSearch_search_return(code)
    /\ passes' = Append(passes, PassRecord(RomSearch_search_return(code), participating))
    /\ pc' = "done"
    /\ UNCHANGED <<devices, participating, device_scratchpad, loopback, cmd, self, index, code, bytes,
                   conflicts, log>>

----------------------------------------------------------------------------
(* The ROM commands on a simulated bus *)

Init ==
    /\ devices \in Buses
    /\ InitCommon

Next ==
    \/ RomRead_execute
    \/ RomRead_read_byte
    \/ RomRead_finish
    \/ RomSearch_execute
    \/ RomSearch_execute_bit
    \/ RomSearch_execute_finish
    \/ RomSearch_search
    \/ RomSearch_search_bit
    \/ RomSearch_search_finish
    \/ Detach

Spec == Init /\ [][Next]_vars

\* the steps inside a command: execute is synchronous code, once entered it runs
\* to its return
RunOn ==
    \/ RomRead_read_byte
    \/ RomRead_finish
    \/ RomSearch_execute_bit
    \/ RomSearch_execute_finish
    \/ RomSearch_search_bit
    \/ RomSearch_search_finish

\* a caller that enumerates: every command runs to its return, and search is
\* called again and again
FairSpec == Spec /\ WF_vars(RunOn) /\ SF_vars(RomSearch_search)

----------------------------------------------------------------------------
(* src/commands/rom.rs: RomMatch and RomSkip, as the bus operations they issue *)

RomMatch_execute(rom) == LogByte(COMMAND_ROM_MATCH) \o LogBytes(RomIntoBytes(rom))

RomSkip_execute == LogByte(COMMAND_ROM_SKIP)

\* match self.rom { Some(rom) => RomMatch { rom }, None => RomSkip }
Address(rom) == IF rom = {} THEN RomSkip_execute ELSE RomMatch_execute(CHOOSE r \in rom : TRUE)

----------------------------------------------------------------------------
(* src/commands/memory.rs *)

\* the identifiers a caller addresses, and a caller's Option<Rom>
Roms == {RomOfBytes(DeviceId(1)), RomOfBytes(DeviceId(2))}
RomOptions == {{}} \cup {{r} : r \in Roms}

\* `as u8` of an i8, and back
AsU8(x) == x % 256
AsI8(b) == IF b >= 128 THEN b - 256 ELSE b

\* the configuration bytes of the four resolutions (9, 10, 11 and 12 bits)
Resolutions == {31, 63, 95, 127}

\* the scratchpads a caller writes
Scratchpads ==
    [high : {75, -10}, low : {70, -10}, resolution : {31, 127}]

\* TryFrom<[u8; 9]> for Scratchpad: the CRC over the 9 bytes, then the fields
ScratchpadTryFromBytes(bs) ==
    LET c == check(bs)
    IN  IF c.tag = "Err" THEN c
        ELSE IF bs[5] \notin Resolutions THEN Err("ConfigurationRegister")
        ELSE OkPad([high |-> AsI8(bs[3]), low |-> AsI8(bs[4]), resolution |-> bs[5]])

\* the data bytes a device may hold: the power-on block, another one, and one
\* whose configuration byte is no resolution
ScratchData ==
    {<<80, 5, 75, 70, 127, 255, 12, 16>>,
     <<145, 1, 246, 20, 31, 255, 15, 16>>,
     <<80, 5, 75, 70, 0, 255, 12, 16>>}

\* every trailing byte, right or wrong
ScratchBlocks == {d \o <<t>> : d \in ScratchData, t \in 0..255}

\* the bits of the next 8 read slots while the device sends byte k of its block
ReadScratchByte(devs, block, k) ==
    IF devs = {} THEN <<1, 1, 1, 1, 1, 1, 1, 1>>
    ELSE LET b(j) == Bit(block[k + 1], j)
         IN  <<b(0), b(1), b(2), b(3), b(4), b(5), b(6), b(7)>>

\* the levels a device may show in a read slot while it is busy or done; an
\* empty bus floats high
BusyLevels(devs) == IF devs = {} THEN {1} ELSE {0, 1}

\* a retry budget that forgets the + 1
max_retries_TooFew == 10000 \div READ_SLOT_DURATION_MICROS

\* let max_retries = (10000 / READ_SLOT_DURATION_MICROS) + 1
max_retries == (10000 \div READ_SLOT_DURATION_MICROS) + 1

\* a prologue that sends the opcode before the device is addressed
Prologue_OpcodeFirst(rom, opcode) ==
    <<LogReset(Presence(devices))>> \o LogByte(opcode) \o Address(rom)

\* driver.reset()?; match self.rom { .. }; driver.write_byte(opcode)?
Prologue(rom, opcode) ==
    <<LogReset(Presence(devices))>> \o Address(rom) \o LogByte(opcode)

\* what every memory command does to the state it does not compute itself; a
\* memory command keeps nothing from one run to the next, so each behaviour runs
\* one command on a bus in its initial state
MemoryBegin(name, rom, pad, ops) ==
    /\ pc = "idle"
    /\ cmd' = name
    /\ self' = [rom |-> rom, scratchpad |-> pad, byte |-> -1]
    /\ log' = ops
    /\ index' = 0
    /\ code' = {}
    /\ UNCHANGED <<devices, participating, loopback, conflicts, passes>>

MemoryConvert_execute ==
    \E rom \in RomOptions :
        /\ MemoryBegin("MemoryConvert", rom, NoPad, Prologue(rom, COMMAND_MEMORY_CONVERT))
        /\ bytes' = <<>>
        /\ result' = Ok
        /\ pc' = "done"
        /\ UNCHANGED device_scratchpad

MemoryScratchpadCopy_execute ==
    \E rom \in RomOptions :
        /\ MemoryBegin("MemoryScratchpadCopy", rom, NoPad,
                       Prologue(rom, COMMAND_MEMORY_SCRATCHPAD_COPY) \o <<<<"wait", 10000>>>>)
        /\ bytes' = <<>>
        /\ result' = Ok
        /\ pc' = "done"
        /\ UNCHANGED device_scratchpad

\* the three bytes written after the opcode, in the order the code writes them
MemoryScratchpadWrite_bytes(pad) == <<AsU8(pad.low), AsU8(pad.high), pad.resolution>>

MemoryScratchpadWrite_execute ==
    \E rom \in RomOptions, pad \in Scratchpads :
        /\ MemoryBegin("MemoryScratchpadWrite", rom, pad,
                       Prologue(rom, COMMAND_MEMORY_SCRATCHPAD_WRITE)
                           \o LogBytes(MemoryScratchpadWrite_bytes(pad)))
        /\ bytes' = <<>>
        /\ result' = Ok
        /\ pc' = "done"
        /\ UNCHANGED device_scratchpad

\* reset, addressing, write_byte(COMMAND_MEMORY_RECALL)
MemoryRecall_execute ==
    \E rom \in RomOptions :
        /\ MemoryBegin("MemoryRecall", rom, NoPad, Prologue(rom, COMMAND_MEMORY_RECALL))
        /\ bytes' = <<>>
        /\ result' = Running
        /\ pc' = "poll"
        /\ UNCHANGED device_scratchpad

\* one iteration of the polling loop, and the Err(Error::Timeout) after the last
MemoryRecall_poll ==
    /\ cmd = "MemoryRecall"
    /\ pc = "poll"
    /\ index < max_retries
    /\ \E bit \in BusyLevels(devices) :
        /\ log' = Append(log, <<"read", bit>>)
        /\ IF bit = 1
           THEN /\ result' = Ok
                /\ pc' = "done"
           ELSE IF index + 1 = max_retries
           THEN /\ result' = Err("Timeout")
                /\ pc' = "done"
           ELSE /\ result' = Running
                /\ pc' = "poll"
    /\ index' = index + 1
    /\ UNCHANGED <<devices, participating, device_scratchpad, loopback, cmd, self,
                   code, bytes, conflicts, passes>>

\* reset, RomMatch, write_byte(COMMAND_MEMORY_SCRATCHPAD_READ); the device holds
\* some block
MemoryScratchpadRead_execute ==
    \E r \in Roms, block \in ScratchBlocks :
        /\ MemoryBegin("MemoryScratchpadRead", {r}, NoPad,
                       Prologue({r}, COMMAND_MEMORY_SCRATCHPAD_READ))
        /\ device_scratchpad' = block
        /\ bytes' = <<0, 0, 0, 0, 0, 0, 0, 0, 0>>
        /\ result' = Running
        /\ pc' = "read_bytes"

\* one iteration of read_bytes: a ReadByte into bytes[index]
MemoryScratchpadRead_read_byte ==
    /\ cmd = "MemoryScratchpadRead"
    /\ pc = "read_bytes"
    /\ LET bits == ReadScratchByte(devices, device_scratchpad, index)
       IN  /\ bytes' = [bytes EXCEPT ![index + 1] = ReadByte(bits)]
           /\ log' = log \o LogReads(bits)
    /\ index' = index + 1
    /\ pc' = IF index + 1 = 9 THEN "return" ELSE "read_bytes"
    /\ UNCHANGED <<devices, participating, device_scratchpad, loopback, cmd, self,
                   code, conflicts, result, passes>>

\* a return that builds the scratchpad without validating the block
MemoryScratchpadRead_return_Unchecked(bs) ==
    OkPad([high |-> AsI8(bs[3]), low |-> AsI8(bs[4]), resolution |-> bs[5]])

\* bytes.try_into()
MemoryScratchpadRead_return(bs) == ScratchpadTryFromBytes(bs)

MemoryScratchpadRead_finish ==
    /\ cmd = "MemoryScratchpadRead"
    /\ pc = "return"
    /\ result' = MemoryScratchpadRead_return(bytes)
    /\ pc' = "done"
    /\ UNCHANGED <<devices, participating, device_scratchpad, loopback, cmd, self,
                   index, code, bytes, conflicts, log, passes>>

InitMemory ==
    /\ devices \in {{}, {DeviceId(1)}}
    /\ InitCommon

NextMemory ==
    \/ MemoryConvert_execute
    \/ MemoryRecall_execute
    \/ MemoryRecall_poll
    \/ MemoryScratchpadCopy_execute
    \/ MemoryScratchpadRead_execute
    \/ MemoryScratchpadRead_read_byte
    \/ MemoryScratchpadRead_finish
    \/ MemoryScratchpadWrite_execute

SpecMemory == InitMemory /\ [][NextMemory]_vars

\* the polling loop is synchronous code: once entered it runs to its end
FairSpecMemory == SpecMemory /\ WF_vars(MemoryRecall_poll)

----------------------------------------------------------------------------
(* src/command.rs on a loopback transport: what write_bit sends, read_bit returns *)

WriteByte_execute ==
    /\ Idle
    /\ loopback = <<>>
    /\ \E b \in 0..255 :
        /\ self' = [rom |-> {}, scratchpad |-> NoPad, byte |-> b]
        /\ log' = LogWrites(WriteByte(b))
        /\ loopback' = WriteByte(b)
    /\ cmd' = "WriteByte"
    /\ result' = Ok
    /\ pc' = "done"
    /\ UNCHANGED <<devices, participating, device_scratchpad, index, code, bytes,
                   conflicts, passes>>

ReadByte_execute ==
    /\ Idle
    /\ Len(loopback) >= U8_BITS
    /\ LET bits == SubSeq(loopback, 1, U8_BITS)
       IN  /\ result' = OkByte(ReadByte(bits))
           /\ log' = log \o LogReads(bits)
           /\ loopback' = SubSeq(loopback, U8_BITS + 1, Len(loopback))
    /\ cmd' = "ReadByte"
    /\ pc' = "done"
    /\ UNCHANGED <<devices, participating, device_scratchpad, self, index, code,
                   bytes, conflicts, passes>>

InitByte ==
    /\ devices = {}
    /\ InitCommon

NextByte ==
    \/ WriteByte_execute
    \/ ReadByte_execute

SpecByte == InitByte /\ [][NextByte]_vars

----------------------------------------------------------------------------
(* Reading the log of a search pass: entry 1 is the reset, entries 2..9 the
   opcode bits, and position i (0..63) owns entries 10+3i (read), 11+3i (read)
   and 12+3i (write) *)

SearchCmds == {"RomSearch_execute", "RomSearch_search"}
RomCmds == SearchCmds \cup {"RomRead"}

FirstRead(i) == 10 + 3 * i

HasPair(i) ==
    /\ Len(log) >= FirstRead(i) + 1
    /\ log[FirstRead(i)][1] = "read"
    /\ log[FirstRead(i) + 1][1] = "read"

PairAt(i) == <<log[FirstRead(i)][2], log[FirstRead(i) + 1][2]>>

\* the pass has gone through all 64 positions
PassCompleted == Len(log) = 9 + 3 * U64_BITS

\* the bits of a byte, least significant first
LsbFirst(byte) == [k \in 1..8 |-> Bit(byte, k - 1)]

CrcValid(d) == crc8(d) = 0

----------------------------------------------------------------------------
(* C1: full enumeration *)

EnumerationExhausted ==
    /\ cmd = "RomSearch_search"
    /\ pc = "done"
    /\ PassCompleted
    /\ conflicts = {}

Yielded == {k \in 1..Len(passes) : passes[k].result.tag = "Ok"}

\* C1: on a bus of N in {1, 2, 5} devices with distinct CRC-valid identifiers,
\* repeating RomSearch::search from conflict mask 0 until the mask is exhausted
\* yields exactly N identifiers, each the identifier of a device on the bus, with
\* no identifier yielded twice and no device omitted.
C1_EnumerationComplete ==
    (/\ EnumerationExhausted
     /\ Cardinality(devices) \in {1, 2, 5}
     /\ \A d \in devices : CrcValid(d))
    => /\ Len(passes) = Cardinality(devices)
       /\ \A k \in 1..Len(passes) :
            /\ passes[k].result.tag = "Ok"
            /\ RomIntoBytes(passes[k].result.rom) \in devices
       /\ \A k, l \in 1..Len(passes) :
            k # l => passes[k].result.rom # passes[l].result.rom
       /\ \A d \in devices :
            \E k \in Yielded : RomIntoBytes(passes[k].result.rom) = d

----------------------------------------------------------------------------
(* C2: the (1,1) pair *)

\* C2: in RomSearch::execute and RomSearch::search, a read pair (1,1) at any bit
\* position ends the pass there with Error::NoAttachedDevices: the two reads are
\* the last bus operations (no write_bit for the position, nothing after it) and
\* no identifier is returned.
C2_NoneEndsPass ==
    cmd \in SearchCmds =>
        \A i \in 0..(U64_BITS - 1) :
            (HasPair(i) /\ PairAt(i) = NONE)
            => /\ Len(log) = FirstRead(i) + 1
               /\ pc = "done"
               /\ result = Err("NoAttachedDevices")

\* a stateful pass that met a conflict and was then cut short by (1,1) mid-search
C2_Witness ==
    /\ cmd = "RomSearch_search"
    /\ pc = "done"
    /\ conflicts # {}
    /\ \E i \in 1..(U64_BITS - 1) :
        /\ HasPair(i)
        /\ PairAt(i) = NONE
        /\ Len(log) = FirstRead(i) + 1
    /\ result = Err("NoAttachedDevices")

----------------------------------------------------------------------------
(* C3: no presence *)

\* C3: when reset reports no presence, RomRead, RomSearch::execute and
\* RomSearch::search return Error::NoAttachedDevices and the reset is the only
\* bus operation of the command.
C3_NoPresenceRom ==
    (cmd \in RomCmds /\ log # <<>> /\ log[1] = LogReset(0))
    => /\ pc = "done"
       /\ result = Err("NoAttachedDevices")
       /\ log = <<LogReset(0)>>

C3_Witness ==
    /\ cmd = "RomSearch_search"
    /\ devices = {}
    /\ log = <<LogReset(0)>>
    /\ result = Err("NoAttachedDevices")

----------------------------------------------------------------------------
(* C5: RomRead *)

\* the byte that 8 consecutive read slots starting at log entry `at` spell, least
\* significant bit first
SlotsByte(at) ==
    LET x(j) == log[at + j][2] * (2 ^ j)
    IN  x(0) + x(1) + x(2) + x(3) + x(4) + x(5) + x(6) + x(7)

RomReadDone ==
    /\ cmd = "RomRead"
    /\ pc = "done"
    /\ Cardinality(devices) = 1
    /\ \A d \in devices : CrcValid(d)

\* C5: with exactly one device, whose identifier is CRC-valid, RomRead issues the
\* reset, the opcode 0x33 and then exactly 64 read slots, and returns the
\* identifier whose bytes are the device's bytes in transmission order (family
\* code first, CRC last), each assembled least significant bit first.
C5_RomReadReturnsIdentifier ==
    RomReadDone =>
        /\ Len(log) = 9 + 64
        /\ log[1] = LogReset(1)
        /\ \A k \in 1..8 : log[1 + k] = <<"write", LsbFirst(51)[k]>>
        /\ \A k \in 10..73 : log[k][1] = "read"
        /\ result.tag = "Ok"
        /\ \A d \in devices :
            /\ result.rom.family_code = d[1]
            /\ result.rom.serial_number = SubSeq(d, 2, 7)
            /\ result.rom.crc = d[8]
        /\ \A k \in 1..8 : RomIntoBytes(result.rom)[k] = SlotsByte(10 + 8 * (k - 1))

C5_Witness ==
    /\ RomReadDone
    /\ result.tag = "Ok"
    /\ result.rom.serial_number[1] = 5

----------------------------------------------------------------------------
(* C7: the CRC check of a completed pass *)

\* C7: a completed pass of RomSearch::execute or RomSearch::search returns
\* Error::MismatchedCrc and no identifier whenever the 8 little-endian bytes of the
\* accumulated value fail the CRC check, and returns an identifier (the one those
\* bytes spell) only when they pass it.
C7_CrcGuardsYield ==
    (cmd \in SearchCmds /\ pc = "done" /\ PassCompleted)
    => IF crc8(to_le_bytes(code)) # 0
       THEN result = MismatchedCrc(crc8(to_le_bytes(code)))
       ELSE /\ result.tag = "Ok"
            /\ RomIntoBytes(result.rom) = to_le_bytes(code)

\* the stateless pass accumulated the identifier of a device whose CRC byte is wrong
C7_Witness ==
    /\ cmd = "RomSearch_execute"
    /\ pc = "done"
    /\ PassCompleted
    /\ code = IdBits(CorruptId)
    /\ result.tag = "Err"
    /\ result.err = "MismatchedCrc"

----------------------------------------------------------------------------
(* Reading the log of a memory command: the reset, the addressing bytes (one for
   RomSkip, nine for RomMatch) and the opcode byte make the prologue *)

MemoryCmds ==
    {"MemoryConvert", "MemoryRecall", "MemoryScratchpadCopy", "MemoryScratchpadRead",
     "MemoryScratchpadWrite"}

PrologueLen == 1 + (IF self.rom = {} THEN 8 ELSE 72) + 8

\* log entries from..from+7 are the write slots of `byte`, least significant bit first
WritesByteAt(from, byte) ==
    /\ Len(log) >= from + 7
    /\ \A k \in 1..8 : log[from + k - 1] = <<"write", LsbFirst(byte)[k]>>

----------------------------------------------------------------------------
(* C4: memory commands without presence *)

\* C4: when reset reports no presence, every memory command returns
\* Error::NoAttachedDevices and writes neither a ROM-addressing byte nor an opcode.
C4_NoPresenceMemory ==
    (cmd \in MemoryCmds /\ log # <<>> /\ log[1] = LogReset(0))
    => /\ result = Err("NoAttachedDevices")
       /\ \A k \in 1..Len(log) : log[k][1] # "write"

----------------------------------------------------------------------------
(* C6: byte round trip *)

\* C6: WriteByte{byte: b} issues exactly 8 write_bit calls, bit 0 of b first and
\* bit 7 last, and ReadByte fed those 8 bits in that order returns b, for every b
\* in 0..255.
C6_ByteRoundTrip ==
    /\ cmd = "WriteByte" =>
        /\ Len(log) = 8
        /\ \A k \in 1..8 : log[k] = <<"write", Bit(self.byte, k - 1)>>
    /\ cmd = "ReadByte" =>
        /\ Len(log) = 16
        /\ \A k \in 1..8 : log[8 + k] = <<"read", log[k][2]>>
        /\ result = OkByte(self.byte)

C6_Witness ==
    /\ cmd = "ReadByte"
    /\ self.byte = 78
    /\ result.byte = 78
    /\ loopback = <<>>

----------------------------------------------------------------------------
(* C8: the bytes of a scratchpad write *)

\* C8: after the reset and the ROM addressing, MemoryScratchpadWrite writes the
\* opcode 0x4E and then exactly three bytes: trigger-high, trigger-low,
\* configuration, and nothing else.
C8_WriteOrder ==
    (cmd = "MemoryScratchpadWrite" /\ pc = "done")
    => /\ Len(log) = PrologueLen + 24
       /\ WritesByteAt(PrologueLen - 7, 78)
       /\ WritesByteAt(PrologueLen + 1, AsU8(self.scratchpad.high))
       /\ WritesByteAt(PrologueLen + 9, AsU8(self.scratchpad.low))
       /\ WritesByteAt(PrologueLen + 17, self.scratchpad.resolution)

----------------------------------------------------------------------------
(* C9: the polling of a recall *)

\* the read slots the recall has consumed so far
Polls == Len(log) - PrologueLen

PollBit(k) == log[PrologueLen + k][2]

C9_PollingBounded ==
    cmd = "MemoryRecall" =>
        /\ WritesByteAt(PrologueLen - 7, 184)
        /\ Polls \in 0..143
        /\ \A k \in 1..Polls : log[PrologueLen + k][1] = "read"
        /\ \A k \in 1..(Polls - 1) : PollBit(k) = 0
        /\ pc = "done" <=> (Polls >= 1 /\ (PollBit(Polls) = 1 \/ Polls = 143))
        /\ pc = "done" =>
            result = IF PollBit(Polls) = 1 THEN Ok ELSE Err("Timeout")
        /\ pc # "done" => result = Running
        /\ 143 * 70 >= 10000

\* C9: after the opcode 0xB8 MemoryRecall only reads bits; it returns Ok at the
\* first read that returns true and issues nothing after it; if every read returns
\* false it returns Error::Timeout after exactly 143 reads, and 143 slots of 70
\* microseconds cover the 10000 microseconds; a polling recall always comes to
\* its end.
C9_RecallTerminates ==
    /\ []C9_PollingBounded
    /\ (cmd = "MemoryRecall" /\ pc = "poll") ~> (cmd = "MemoryRecall" /\ pc = "done")

\* a recall that timed out on a device that stayed busy
C9_Witness ==
    /\ cmd = "MemoryRecall"
    /\ pc = "done"
    /\ devices # {}
    /\ Polls = 143
    /\ result = Err("Timeout")

----------------------------------------------------------------------------
(* C10: the CRC of a scratchpad read *)

\* the 9 bytes the bus presents after the opcode: an empty bus floats high
Sent == IF devices = {} THEN <<255, 255, 255, 255, 255, 255, 255, 255, 255>>
        ELSE device_scratchpad

\* C10: MemoryScratchpadRead reads exactly 9 bytes after the opcode 0xBE; when the
\* block fails the CRC check it returns Error::MismatchedCrc and no Scratchpad, and
\* a Scratchpad it returns is made of the bytes of a block that passes the check.
C10_CrcGuardsScratchpad ==
    (cmd = "MemoryScratchpadRead" /\ pc = "done")
    => /\ Len(log) = PrologueLen + 72
       /\ WritesByteAt(PrologueLen - 7, 190)
       /\ \A k \in 1..9 :
            /\ \A j \in 0..7 : log[PrologueLen + 8 * (k - 1) + 1 + j][1] = "read"
            /\ SlotsByte(PrologueLen + 8 * (k - 1) + 1) = Sent[k]
       /\ crc8(Sent) # 0 => result = MismatchedCrc(crc8(Sent))
       /\ result.tag = "Ok" =>
            /\ crc8(Sent) = 0
            /\ result.pad = [high |-> AsI8(Sent[3]), low |-> AsI8(Sent[4]),
                             resolution |-> Sent[5]]

\* a device sent the power-on block with a wrong trailing byte
C10_Witness ==
    /\ cmd = "MemoryScratchpadRead"
    /\ pc = "done"
    /\ devices # {}
    /\ SubSeq(device_scratchpad, 1, 8) = <<80, 5, 75, 70, 127, 255, 12, 16>>
    /\ crc8(device_scratchpad) = 1
    /\ result = MismatchedCrc(1)

----------------------------------------------------------------------------
(* C11: the classification of a read pair *)

\* position i of the running pass has had its write_bit
HasWrite(i) == Len(log) >= FirstRead(i) + 2

WriteAt(i) == log[FirstRead(i) + 2][2]

\* C11: in RomSearch::execute and RomSearch::search, at every position where the
\* read pair is (1,0) the master writes 1 and the accumulated bit is 1, at every
\* position where it is (0,1) the master writes 0 and the accumulated bit is 0;
\* hence on a single-device bus a completed pass accumulates that device's
\* identifier.
C11_PerBitClassification ==
    cmd \in SearchCmds =>
        /\ \A i \in 0..(U64_BITS - 1) :
            HasWrite(i) =>
                /\ PairAt(i) = ONE => (WriteAt(i) = 1 /\ i \in code)
                /\ PairAt(i) = ZERO => (WriteAt(i) = 0 /\ i \notin code)
        /\ (pc = "done" /\ PassCompleted /\ Cardinality(devices) = 1)
           => \A d \in devices : code = IdBits(d)

----------------------------------------------------------------------------
(* C12: what the conflict mask records *)

\* C12: at the end of a completed pass of RomSearch::search, in an enumeration
\* started from conflict mask 0, bit i of the conflict mask is set if and only if
\* the read pair at position i of that pass was (0,0); positions classified
\* (0,1) or (1,0) never have their mask bit set.
C12_ConflictMaskMeaning ==
    (cmd = "RomSearch_search" /\ pc = "done" /\ PassCompleted)
    => \A i \in 0..(U64_BITS - 1) : (i \in conflicts) <=> (PairAt(i) = CONFLICT)

----------------------------------------------------------------------------
(* C13: steering from one pass to the next *)

Max(S) == CHOOSE x \in S : \A y \in S : y <= x

\* the bus has been the same since the enumeration began (devices only ever leave)
FixedBus == devices # {}

\* C13: on a fixed bus, if pass k of RomSearch::search observed conflicts and p is
\* the last conflict position at which it chose branch 0, then pass k+1 writes
\* at every conflict position before p the bit pass k wrote there, writes 1 at
\* p, and at every conflict position after p chooses 0 and remembers it.
C13_BranchSteering ==
    FixedBus =>
        \A k \in 1..(Len(passes) - 1) :
            passes[k].zeros # {} =>
                LET p == Max(passes[k].zeros)
                    next == passes[k + 1]
                IN  /\ \A q \in 0..(p - 1) :
                        /\ q \in next.zeros <=> q \in passes[k].zeros
                        /\ q \in next.ones <=> q \in passes[k].ones
                    /\ p \in next.ones
                    /\ \A q \in (next.zeros \cup next.ones) :
                        q > p => (q \in next.zeros /\ q \in next.mask)

----------------------------------------------------------------------------
(* C14: forward progress *)

\* C14: on a fixed bus of devices with distinct identifiers, every completed
\* pass of RomSearch::search either ends with a set of participating devices that
\* no earlier pass of the enumeration ended with, or is the pass on which the
\* enumeration terminates (it leaves the conflict mask 0).
C14_ForwardProgress ==
    FixedBus =>
        \A k \in 1..Len(passes) :
            \/ \A j \in 1..(k - 1) : passes[j].ended # passes[k].ended
            \/ passes[k].mask = {}

\* three passes on the bus of five devices, each ending on another device
C14_Witness ==
    /\ FixedBus
    /\ Cardinality(devices) = MaxDevices
    /\ Len(passes) = 3
    /\ passes[1].mask # {}
    /\ passes[2].mask # {}
    /\ Cardinality({passes[k].ended : k \in 1..3}) = 3
    /\ \A k \in 1..3 : Cardinality(passes[k].ended) = 1

----------------------------------------------------------------------------
(* C15: the enumeration is finite *)

\* C15: on a fixed bus of devices with distinct (CRC-valid) identifiers,
\* repeating RomSearch::search passes from conflict mask 0 eventually reaches a
\* completed pass that leaves the conflict mask 0, and when it does every device
\* of the bus has been yielded.
C15_EnumerationFinite ==
    /\ []((EnumerationExhausted /\ FixedBus /\ \A d \in devices : CrcValid(d))
          => \A d \in devices :
                \E k \in Yielded : RomIntoBytes(passes[k].result.rom) = d)
    /\ (cmd = "RomSearch_search" /\ pc = "bits") ~> (EnumerationExhausted \/ ~FixedBus)

----------------------------------------------------------------------------
(* C16: the transaction of a memory command *)

\* the opcode byte each memory command is to send
OpcodeOf ==
    [MemoryConvert |-> 68, MemoryRecall |-> 184, MemoryScratchpadCopy |-> 72,
     MemoryScratchpadRead |-> 190, MemoryScratchpadWrite |-> 78]

\* the identifier a command addresses, as its 8 bytes
AddressedBytes == RomIntoBytes(CHOOSE r \in self.rom : TRUE)

\* C16: every memory command issues exactly one reset, first; then the single
\* byte 0xCC (rom = None) or 0x55 followed by the 8 identifier bytes (rom =
\* Some); then its opcode byte (0x44, 0xB8, 0x48, 0xBE, 0x4E), with no other bus
\* operation between these steps: the addressing bytes directly follow the reset
\* and the opcode directly follows the addressing.
C16_MemoryTransaction ==
    cmd \in MemoryCmds =>
        /\ Len(log) >= PrologueLen
        /\ log[1][1] = "reset"
        /\ \A k \in 2..Len(log) : log[k][1] # "reset"
        /\ IF self.rom = {}
           THEN /\ PrologueLen = 17
                /\ WritesByteAt(2, 204)
           ELSE /\ PrologueLen = 81
                /\ WritesByteAt(2, 85)
                /\ \A j \in 1..8 : WritesByteAt(2 + 8 * j, AddressedBytes[j])
        /\ WritesByteAt(PrologueLen - 7, OpcodeOf[cmd])

\* a scratchpad write addressed to one device has sent its three bytes
C16_Witness ==
    /\ cmd = "MemoryScratchpadWrite"
    /\ pc = "done"
    /\ self.rom = {RomOfBytes(DeviceId(2))}
    /\ Len(log) = 81 + 24
    /\ WritesByteAt(2, 85)
    /\ WritesByteAt(74, 78)

----------------------------------------------------------------------------
(* C17: the shape of a search pass *)

\* the bus operations of the pass after the reset and the opcode
PassOps == Len(log) - 9

ReadCount == Cardinality({k \in 10..Len(log) : log[k][1] = "read"})
WriteCount == Cardinality({k \in 10..Len(log) : log[k][1] = "write"})

PassAborted == pc = "done" /\ result = Err("NoAttachedDevices")

\* C17: after the reset and the opcode 0xF0, a pass of RomSearch::execute or
\* RomSearch::search visits the positions 0..63 in ascending order and at each
\* issues two read_bit calls and then one write_bit: a completed pass is 64
\* read-read-write triples (128 reads, 64 writes), and a pass aborted at position
\* i has issued 2(i+1) reads and i writes.
C17_PassShape ==
    (cmd \in SearchCmds /\ log[1] = LogReset(1)) =>
        /\ WritesByteAt(2, 240)
        /\ PassOps \in 0..(3 * 64)
        /\ \A k \in 1..PassOps :
            log[9 + k][1] = IF (k - 1) % 3 = 2 THEN "write" ELSE "read"
        /\ pc = "bits" => (index \in 0..63 /\ PassOps = 3 * index)
        /\ IF PassAborted
           THEN \E i \in 0..63 :
                    /\ PassOps = 3 * i + 2
                    /\ ReadCount = 2 * (i + 1)
                    /\ WriteCount = i
           ELSE PassOps % 3 = 0
        /\ (pc \in {"return", "done"} /\ ~PassAborted)
           => (PassOps = 3 * 64 /\ ReadCount = 128 /\ WriteCount = 64)
        /\ (FixedBus /\ Cardinality(devices) = 1)
           => \A d \in devices : \A i \in 0..63 :
                HasPair(i) => PairAt(i) = <<IdBit(d, i), 1 - IdBit(d, i)>>

\* a stateful pass cut short at position 9, after a conflict at position 8
C17_Witness ==
    /\ cmd = "RomSearch_search"
    /\ PassAborted
    /\ conflicts = {8}
    /\ PassOps = 3 * 9 + 2
    /\ ReadCount = 20
    /\ WriteCount = 9

----------------------------------------------------------------------------
(* C18: the stateless search *)

\* the first position at which two distinct identifiers differ
FirstDiff(d, e) ==
    CHOOSE i \in 0..(U64_BITS - 1) :
        /\ IdBit(d, i) # IdBit(e, i)
        /\ \A j \in 0..(i - 1) : IdBit(d, j) = IdBit(e, j)

\* the device reached by choosing 0 at every conflict: against any other device
\* it has the 0 where the two first differ
ZeroBranch(devs) ==
    CHOOSE d \in devs : \A e \in devs \ {d} : IdBit(d, FirstDiff(d, e)) = 0

\* C18: on a fixed bus of N >= 1 devices with distinct identifiers, every
\* completed run of RomSearch::execute accumulates the same value, the
\* identifier of the device reached by choosing 0 at every conflict; that device
\* alone is participating at the end of the pass; and no step of the run changes
\* the conflict mask.
C18_StatelessFindsOne ==
    /\ []((cmd = "RomSearch_execute" /\ pc = "done" /\ PassCompleted /\ FixedBus)
          => /\ ZeroBranch(devices) \in devices
             /\ code = IdBits(ZeroBranch(devices))
             /\ participating = {ZeroBranch(devices)})
    /\ [][cmd' = "RomSearch_execute" => conflicts' = conflicts]_vars

\* a stateless run in the middle of an enumeration of the five-device bus
C18_Witness ==
    /\ cmd = "RomSearch_execute"
    /\ pc = "done"
    /\ PassCompleted
    /\ Cardinality(devices) = MaxDevices
    /\ conflicts # {}
    /\ code = IdBits(DeviceId(4))
    /\ participating = {DeviceId(4)}

====
